---- MODULE Spec2Model ----
(***************************************************************************)
(* The nine browser verification scripts of src/verification, each as the  *)
(* straight-line sequence of calls it makes, with Python's try / except /  *)
(* finally and `with` semantics deciding where control goes when a call    *)
(* raises.  The browser, the page under test and the file system are the   *)
(* environment: the outcome of every call that can raise is chosen         *)
(* nondeterministically.                                                   *)
(***************************************************************************)
EXTENDS Naturals, Sequences, FiniteSets

VARIABLES
    script,      \* the script being run (one of the nine files)
    run,         \* how many times the script has been started
    pc,          \* index of the next step of Prog(script); 0 = process ended
    exc,         \* the exception in flight: "none", "timeout" or "error"
    playwright,  \* TRUE inside the `with sync_playwright()` block
    browser,     \* "none", "open" (launched) or "closed" (browser.close() ran)
    hist,        \* history: steps executed in this run, with their outcome
    out,         \* lines printed in this run
    shown,       \* page facts established by the waits since the last gesture
    shots,       \* screenshot files on disk: path -> capture
    captures,    \* history: the runs whose screenshot step succeeded
    image,       \* the file test_image.png
    chooser,     \* TRUE once the file chooser has been obtained
    uploaded     \* files handed to the file chooser in this run

vars == <<script, run, pc, exc, playwright, browser, hist, out, shown, shots,
          captures, image, chooser, uploaded>>

\* How many times in a row a script is run.
MaxRuns == 2

Scripts == {"verify", "verify_load", "verify_styles", "verify_redesign",
            "reproduce_delay", "verify_changes", "verify_final",
            "verify_subtitle_modern", "verify_maximize"}

-----------------------------------------------------------------------------
(* Steps.  op is the call, line its source line, arg its target (URL,      *)
(* selector, text, message or path), neg marks a negated expectation and   *)
(* t an explicit timeout in ms (0: the library's default).                 *)

St(op, line, arg) == [op |-> op, line |-> line, arg |-> arg, neg |-> FALSE, t |-> 0]

Wt(op, line, arg, neg, t) == [op |-> op, line |-> line, arg |-> arg, neg |-> neg, t |-> t]

\* A try statement: its body is steps first..last, its except clause (the
\* handler) steps hfirst..hlast.
Try(first, last, hfirst, hlast) ==
    [first |-> first, last |-> last, hfirst |-> hfirst, hlast |-> hlast]

verify_app ==
    << St("start", 4, "sync_playwright"),
       St("launch", 5, "chromium"),
       St("new_page", 6, ""),
       St("goto", 9, "http://localhost:4173"),
       St("expect", 12, "title=DontSee | Secure Steganography"),
       St("expect", 15, "heading=DontSee"),
       St("screenshot", 18, "verification/app_screenshot.png"),
       St("print", 19, "Screenshot taken successfully"),
       St("except", 20, "Exception"),
       St("print", 21, "Error"),
       St("close", 23, ""),
       St("stop", 4, "sync_playwright") >>

verify_app_load ==
    << St("start", 30, "sync_playwright"),
       St("launch", 31, "chromium"),
       St("new_page", 32, ""),
       St("print", 6, "Navigating to app..."),
       St("goto", 7, "http://localhost:3000"),
       St("print", 9, "Waiting for header..."),
       St("expect", 10, "heading=Hide or Reveal Secrets"),
       St("print", 12, "Checking for Image Preview component (Dropzone)..."),
       St("expect", 19, "text=Upload a DontSee image to decrypt"),
       St("print", 25, "Taking screenshot..."),
       St("screenshot", 26, "verification/app_loaded.png"),
       St("print", 27, "Done."),
       St("except", 35, "Exception"),
       St("print", 36, "Error"),
       St("close", 38, ""),
       St("stop", 30, "sync_playwright") >>

\* A variant of verify_styling that takes the screenshot before it waits.
verify_styling_shot_first ==
    << St("start", 4, "sync_playwright"),
       St("launch", 5, "chromium"),
       St("new_page", 6, ""),
       St("goto", 9, "http://localhost:3000"),
       St("screenshot", 15, "verification/verification.png"),
       St("wait_for_selector", 12, "body"),
       St("print", 16, "Screenshot taken successfully"),
       St("except", 18, "Exception"),
       St("print", 19, "Error"),
       St("close", 21, ""),
       St("stop", 4, "sync_playwright") >>

verify_styling ==
    << St("start", 4, "sync_playwright"),
       St("launch", 5, "chromium"),
       St("new_page", 6, ""),
       St("goto", 9, "http://localhost:3000"),
       St("wait_for_selector", 12, "body"),
       St("screenshot", 15, "verification/verification.png"),
       St("print", 16, "Screenshot taken successfully"),
       St("except", 18, "Exception"),
       St("print", 19, "Error"),
       St("close", 21, ""),
       St("stop", 4, "sync_playwright") >>

verify_redesign ==
    << St("start", 4, "sync_playwright"),
       St("launch", 5, "chromium"),
       St("new_page", 7, "viewport=1280x800"),
       St("print", 10, "Navigating to app..."),
       St("goto", 11, "http://localhost:3000"),
       St("wait_for_selector", 14, "main"),
       St("print", 16, "Taking screenshot of initial state..."),
       St("screenshot", 17, "verification/redesign_initial.png"),
       St("locator", 20, "header"),
       St("print", 23, "Screenshot saved to verification/redesign_initial.png"),
       St("except", 25, "Exception"),
       St("print", 26, "Error"),
       St("close", 28, ""),
       St("stop", 4, "sync_playwright") >>

verify_scanning_delay ==
    << St("start", 45, "sync_playwright"),
       St("launch", 46, "chromium"),
       St("new_page", 47, ""),
       St("print", 6, "Navigating to app..."),
       St("goto", 7, "http://localhost:3000"),
       St("print", 13, "Mocking file upload..."),
       St("click", 16, "input[type=file]"),
       St("file_chooser", 17, "fc_info.value"),
       St("open", 28, "test_image.png"),
       St("write", 30, "test_image.png"),
       St("fclose", 30, "test_image.png"),
       St("print", 32, "Uploading file..."),
       St("set_files", 33, "test_image.png"),
       St("print", 35, "Checking for IMMEDIATE 'Analyzing...' text..."),
       Wt("expect", 38, "text=Analyzing Image...", FALSE, 500),
       St("print", 39, "PASS"),
       St("except", 40, "bare"),
       St("print", 41, "SUCCESS"),
       St("screenshot", 42, "verification/bug_reproduced.png"),
       St("except", 50, "Exception"),
       St("print", 51, "Error"),
       St("close", 53, ""),
       St("stop", 45, "sync_playwright") >>

verify_changes ==
    << St("start", 4, "sync_playwright"),
       St("launch", 5, "chromium"),
       St("new_page", 6, ""),
       St("goto", 9, "http://localhost:3000"),
       St("wait_for_selector", 12, "main"),
       St("locator", 18, "text=Upload Image/xpath=.."),
       St("hover", 19, "text=Upload Image/xpath=.."),
       Wt("wait_for_timeout", 22, "", FALSE, 500),
       St("screenshot", 25, "verification/full_page.png"),
       St("close", 27, ""),
       St("stop", 4, "sync_playwright") >>

verify_fixes ==
    << St("start", 4, "sync_playwright"),
       St("launch", 5, "chromium"),
       St("new_page", 6, ""),
       St("goto", 9, "http://localhost:3000"),
       St("wait_for_selector", 12, "main"),
       St("wait_for_selector", 15, "text=Steganography"),
       Wt("wait_for_timeout", 18, "", FALSE, 2000),
       St("screenshot", 21, "verification/final_fix.png"),
       St("close", 23, ""),
       St("stop", 4, "sync_playwright") >>

verify_subtitle_and_ui ==
    << St("start", 4, "sync_playwright"),
       St("launch", 5, "chromium"),
       St("new_page", 6, ""),
       St("goto", 9, "http://localhost:3000"),
       St("wait_for_selector", 12, "main"),
       St("wait_for_selector", 15, "text=Steganography"),
       Wt("wait_for_timeout", 18, "", FALSE, 2000),
       St("screenshot", 21, "verification/modern_subtitle.png"),
       St("close", 23, ""),
       St("stop", 4, "sync_playwright") >>

\* A variant of run that takes the screenshot after the overlay was closed.
run_shot_after_minimize ==
    << St("start", 49, "sync_playwright"),
       St("launch", 5, "chromium"),
       St("new_context", 6, ""),
       St("new_page", 7, ""),
       St("goto", 10, "http://localhost:3000"),
       St("expect", 13, "placeholder=Enter secret message here..."),
       St("locator", 16, "placeholder=Enter secret message here..."),
       St("locator", 20, "label=Maximize"),
       St("expect", 21, "attached label=Maximize"),
       St("click", 24, "label=Maximize"),
       St("locator", 30, "label=Minimize"),
       St("expect", 31, "label=Minimize"),
       St("expect", 35, "count(text=0 /)=2"),
       St("click", 41, "label=Minimize"),
       St("screenshot", 38, "/home/jules/verification/zen_mode.png"),
       Wt("expect", 44, "label=Minimize", TRUE, 0),
       St("close", 46, ""),
       St("stop", 49, "sync_playwright") >>

run_maximize ==
    << St("start", 49, "sync_playwright"),
       St("launch", 5, "chromium"),
       St("new_context", 6, ""),
       St("new_page", 7, ""),
       St("goto", 10, "http://localhost:3000"),
       St("expect", 13, "placeholder=Enter secret message here..."),
       St("locator", 16, "placeholder=Enter secret message here..."),
       St("locator", 20, "label=Maximize"),
       St("expect", 21, "attached label=Maximize"),
       St("click", 24, "label=Maximize"),
       St("locator", 30, "label=Minimize"),
       St("expect", 31, "label=Minimize"),
       St("expect", 35, "count(text=0 /)=2"),
       St("screenshot", 38, "/home/jules/verification/zen_mode.png"),
       St("click", 41, "label=Minimize"),
       Wt("expect", 44, "label=Minimize", TRUE, 0),
       St("close", 46, ""),
       St("stop", 49, "sync_playwright") >>

Prog(s) ==
    CASE s = "verify" -> verify_app
      [] s = "verify_load" -> verify_app_load
      [] s = "verify_styles" -> verify_styling
      [] s = "verify_redesign" -> verify_redesign
      [] s = "reproduce_delay" -> verify_scanning_delay
      [] s = "verify_changes" -> verify_changes
      [] s = "verify_final" -> verify_fixes
      [] s = "verify_subtitle_modern" -> verify_subtitle_and_ui
      [] s = "verify_maximize" -> run_maximize

\* reproduce_delay without the try around the 500 ms expectation.
TriesOuterOnly(s) ==
    CASE s = "verify" -> {Try(4, 8, 9, 10)}
      [] s = "verify_load" -> {Try(4, 12, 13, 14)}
      [] s = "verify_styles" -> {Try(4, 7, 8, 9)}
      [] s = "verify_redesign" -> {Try(4, 10, 11, 12)}
      [] s = "reproduce_delay" -> {Try(4, 19, 20, 21)}
      [] OTHER -> {}

\* The try statements of each script, as step ranges of Prog(s).  Four
\* scripts have none.  Every try of the other five ends in
\* `finally: browser.close()`, the step that follows its handler.
Tries(s) ==
    CASE s = "verify" -> {Try(4, 8, 9, 10)}
      [] s = "verify_load" -> {Try(4, 12, 13, 14)}
      [] s = "verify_styles" -> {Try(4, 7, 8, 9)}
      [] s = "verify_redesign" -> {Try(4, 10, 11, 12)}
      [] s = "reproduce_delay" -> {Try(15, 16, 17, 19), Try(4, 19, 20, 21)}
      [] OTHER -> {}

-----------------------------------------------------------------------------
(* Control flow.                                                           *)

RECURSIVE SkipHandlers(_, _)
\* Normal completion never enters an except clause: control passes over it.
SkipHandlers(s, p) ==
    IF \E t \in Tries(s) : t.hfirst = p
    THEN SkipHandlers(s, (CHOOSE t \in Tries(s) : t.hfirst = p).hlast + 1)
    ELSE p

\* The step after step p when p returns normally.
Succ(s, p) == SkipHandlers(s, p + 1)

\* A variant in which a raising step is skipped and the script carries on.
RaiseContinue(s, p) == SkipHandlers(s, p + 1)

\* Where control goes when step p raises: the except clause of the innermost
\* try whose body holds p, or else out of the function, through the exit of
\* the `with sync_playwright()` block (the last step).
Raise(s, p) ==
    LET enc == {t \in Tries(s) : t.first <= p /\ p <= t.last}
    IN  IF enc = {} THEN Len(Prog(s))
        ELSE (CHOOSE t \in enc : \A u \in enc : u.first <= t.first).hfirst

\* The outcomes of a call.  "timeout" is Playwright's TimeoutError or the
\* AssertionError of a timed-out expect; "error" is any other exception
\* (target closed, strict-mode violation, OSError).  All are subclasses of
\* Exception.
Outcomes(op) ==
    CASE op \in {"goto", "expect", "wait_for_selector", "click", "hover",
                 "set_files", "file_chooser", "screenshot"}
             -> {"ok", "timeout", "error"}
      [] op \in {"new_context", "new_page", "wait_for_timeout", "open"}
             -> {"ok", "error"}
      [] OTHER -> {"ok"}

Running == pc \in 1..Len(Prog(script))

Cur == Prog(script)[pc]

At(ops) == Running /\ Cur.op \in ops

\* Step pc ended with outcome o.
Do(o) ==
    /\ pc' = IF o = "ok" THEN Succ(script, pc) ELSE Raise(script, pc)
    /\ exc' = IF o = "ok" THEN exc ELSE o
    /\ hist' = Append(hist, [pc |-> pc, res |-> o])

-----------------------------------------------------------------------------
(* The 1x1 PNG written by reproduce_delay.                                 *)

\* A placeholder that is not an image.
dummy_image == <<100, 117, 109, 109, 121>>

test_image ==
    <<137, 80, 78, 71, 13, 10, 26, 10, 0, 0, 0, 13, 73, 72, 68, 82,
      0, 0, 0, 1, 0, 0, 0, 1, 8, 6, 0, 0, 0, 31, 21, 196, 137,
      0, 0, 0, 10, 73, 68, 65, 84, 120, 156, 99, 0, 1, 0, 0, 5, 0, 1,
      13, 10, 45, 180, 0, 0, 0, 0, 73, 69, 78, 68, 174, 66, 96, 130>>

NoImage == [exists |-> FALSE, open |-> FALSE, buf |-> <<>>, bytes |-> <<>>]

\* A screenshot that leaves an existing file alone.
WriteShotKeepOld(fs, path, capture) ==
    [p \in DOMAIN fs \cup {path} |->
        IF p \in DOMAIN fs THEN fs[p] ELSE capture]

\* page.screenshot(path=...): creates the file or overwrites it.
WriteShot(fs, path, capture) ==
    [p \in DOMAIN fs \cup {path} |-> IF p = path THEN capture ELSE fs[p]]

-----------------------------------------------------------------------------

Init ==
    /\ script \in Scripts
    /\ run = 1
    /\ pc = 1
    /\ exc = "none"
    /\ playwright = FALSE
    /\ browser = "none"
    /\ hist = <<>>
    /\ out = <<>>
    /\ shown = {}
    /\ shots = [p \in {} |-> 0]
    /\ captures = <<>>
    /\ image = NoImage
    /\ chooser = FALSE
    /\ uploaded = <<>>

\* with sync_playwright() as p:
Start ==
    /\ At({"start"})
    /\ Do("ok")
    /\ playwright' = TRUE
    /\ UNCHANGED <<script, run, browser, out, shown, shots, captures, image,
                   chooser, uploaded>>

\* browser = p.chromium.launch(headless=True)
Launch ==
    /\ At({"launch"})
    /\ Do("ok")
    /\ browser' = "open"
    /\ UNCHANGED <<script, run, playwright, out, shown, shots, captures, image,
                   chooser, uploaded>>

\* browser.new_context(), browser.new_page(), context.new_page()
NewPage ==
    /\ At({"new_context", "new_page"})
    /\ \E o \in Outcomes(Cur.op) : Do(o)
    /\ UNCHANGED <<script, run, playwright, browser, out, shown, shots,
                   captures, image, chooser, uploaded>>

\* page.goto(url): a new document, about which nothing is known yet.
Goto ==
    /\ At({"goto"})
    /\ \E o \in Outcomes(Cur.op) : Do(o)
    /\ shown' = {}
    /\ UNCHANGED <<script, run, playwright, browser, out, shots, captures,
                   image, chooser, uploaded>>

\* expect(...).to_...(), page.wait_for_selector(...): returns once the
\* condition is seen to hold (for a negated expectation: not to hold), raises
\* otherwise.
Wait ==
    /\ At({"expect", "wait_for_selector"})
    /\ \E o \in Outcomes(Cur.op) :
          /\ Do(o)
          /\ shown' = IF o # "ok" THEN shown
                      ELSE IF Cur.neg THEN shown \ {Cur.arg}
                      ELSE shown \cup {Cur.arg}
    /\ UNCHANGED <<script, run, playwright, browser, out, shots, captures,
                   image, chooser, uploaded>>

\* page.wait_for_timeout(ms): time passes, the page may have changed.
Sleep ==
    /\ At({"wait_for_timeout"})
    /\ \E o \in Outcomes(Cur.op) : Do(o)
    /\ shown' = {}
    /\ UNCHANGED <<script, run, playwright, browser, out, shots, captures,
                   image, chooser, uploaded>>

\* page.locator(...), page.get_by_...(...): builds a query, touches nothing.
Locate ==
    /\ At({"locator"})
    /\ Do("ok")
    /\ UNCHANGED <<script, run, playwright, browser, out, shown, shots,
                   captures, image, chooser, uploaded>>

\* locator.click(), locator.hover(): the page reacts as it pleases.
Gesture ==
    /\ At({"click", "hover"})
    /\ \E o \in Outcomes(Cur.op) : Do(o)
    /\ shown' = {}
    /\ UNCHANGED <<script, run, playwright, browser, out, shots, captures,
                   image, chooser, uploaded>>

\* file_chooser = fc_info.value, at the end of `with page.expect_file_chooser()`
FileChooser ==
    /\ At({"file_chooser"})
    /\ \E o \in Outcomes(Cur.op) :
          /\ Do(o)
          /\ chooser' = (o = "ok")
    /\ UNCHANGED <<script, run, playwright, browser, out, shown, shots,
                   captures, image, uploaded>>

\* open("test_image.png", "wb"): creates or truncates the file.
OpenFile ==
    /\ At({"open"})
    /\ \E o \in Outcomes(Cur.op) :
          /\ Do(o)
          /\ image' = IF o = "ok"
                      THEN [exists |-> TRUE, open |-> TRUE, buf |-> <<>>, bytes |-> <<>>]
                      ELSE image
    /\ UNCHANGED <<script, run, playwright, browser, out, shown, shots,
                   captures, chooser, uploaded>>

\* f.write(b'...'): into the file object's buffer.
WriteFile ==
    /\ At({"write"})
    /\ Do("ok")
    /\ image' = [image EXCEPT !.buf = @ \o test_image]
    /\ UNCHANGED <<script, run, playwright, browser, out, shown, shots,
                   captures, chooser, uploaded>>

\* The end of `with open(...) as f`: flushes the buffer and closes the file.
CloseFile ==
    /\ At({"fclose"})
    /\ Do("ok")
    /\ image' = [image EXCEPT !.bytes = @ \o image.buf, !.buf = <<>>, !.open = FALSE]
    /\ UNCHANGED <<script, run, playwright, browser, out, shown, shots,
                   captures, chooser, uploaded>>

\* file_chooser.set_files("test_image.png"): hands over what is on disk.
SetFiles ==
    /\ At({"set_files"})
    /\ \E o \in Outcomes(Cur.op) :
          /\ Do(o)
          /\ uploaded' = IF o = "ok"
                         THEN Append(uploaded, [bytes |-> image.bytes,
                                                closed |-> ~image.open,
                                                chosen |-> chooser])
                         ELSE uploaded
    /\ shown' = {}
    /\ UNCHANGED <<script, run, playwright, browser, out, shots, captures,
                   image, chooser>>

\* page.screenshot(path=...)
Screenshot ==
    /\ At({"screenshot"})
    /\ \E o \in Outcomes(Cur.op) :
          /\ Do(o)
          /\ shots' = IF o = "ok"
                      THEN WriteShot(shots, Cur.arg, [run |-> run, shown |-> shown])
                      ELSE shots
          /\ captures' = IF o = "ok" THEN Append(captures, run) ELSE captures
    /\ UNCHANGED <<script, run, playwright, browser, out, shown, image,
                   chooser, uploaded>>

\* print(...)
PrintLine ==
    /\ At({"print"})
    /\ Do("ok")
    /\ out' = Append(out, Cur.arg)
    /\ UNCHANGED <<script, run, playwright, browser, shown, shots, captures,
                   image, chooser, uploaded>>

\* except Exception as e: / except: -- the exception in flight is caught.
Except ==
    /\ At({"except"})
    /\ pc' = Succ(script, pc)
    /\ exc' = "none"
    /\ hist' = Append(hist, [pc |-> pc, res |-> "ok"])
    /\ UNCHANGED <<script, run, playwright, browser, out, shown, shots,
                   captures, image, chooser, uploaded>>

\* browser.close()
Close ==
    /\ At({"close"})
    /\ Do("ok")
    /\ browser' = "closed"
    /\ UNCHANGED <<script, run, playwright, out, shown, shots, captures, image,
                   chooser, uploaded>>

\* The exit of `with sync_playwright()`: the process ends, and an exception
\* still in flight leaves the entry point.
Stop ==
    /\ At({"stop"})
    /\ pc' = 0
    /\ playwright' = FALSE
    /\ hist' = Append(hist, [pc |-> pc, res |-> "ok"])
    /\ UNCHANGED <<script, run, exc, browser, out, shown, shots, captures,
                   image, chooser, uploaded>>

\* The same script is started again; only the files on disk remain.
Rerun ==
    /\ pc = 0
    /\ run < MaxRuns
    /\ run' = run + 1
    /\ pc' = 1
    /\ exc' = "none"
    /\ browser' = "none"
    /\ hist' = <<>>
    /\ out' = <<>>
    /\ shown' = {}
    /\ chooser' = FALSE
    /\ uploaded' = <<>>
    /\ UNCHANGED <<script, playwright, shots, captures, image>>

Next ==
    \/ Start
    \/ Launch
    \/ NewPage
    \/ Goto
    \/ Wait
    \/ Sleep
    \/ Locate
    \/ Gesture
    \/ FileChooser
    \/ OpenFile
    \/ WriteFile
    \/ CloseFile
    \/ SetFiles
    \/ Screenshot
    \/ PrintLine
    \/ Except
    \/ Close
    \/ Stop
    \/ Rerun

Spec == Init /\ [][Next]_vars

-----------------------------------------------------------------------------
(* What a run did, read off its history.                                   *)

Ended == pc = 0

StepOf(i) == Prog(script)[hist[i].pc]

\* The position in hist of the step written at source line l (0: not run).
Idx(l) ==
    IF \E i \in DOMAIN hist : StepOf(i).line = l /\ StepOf(i).op # "stop"
                              /\ StepOf(i).op # "start" /\ StepOf(i).op # "fclose"
    THEN CHOOSE i \in DOMAIN hist : StepOf(i).line = l /\ StepOf(i).op # "stop"
                              /\ StepOf(i).op # "start" /\ StepOf(i).op # "fclose"
    ELSE 0

\* The position in hist of the (single) step with call op (0: not run).
IdxOp(op) ==
    IF \E i \in DOMAIN hist : StepOf(i).op = op
    THEN CHOOSE i \in DOMAIN hist : StepOf(i).op = op
    ELSE 0

Printed(msg) == \E i \in DOMAIN out : out[i] = msg

WaitOps == {"expect", "wait_for_selector", "wait_for_timeout"}

ActionOps == {"click", "hover", "set_files", "file_chooser", "screenshot"}

\* The calls that raised in this run.
FailedOps == {StepOf(i).op : i \in {j \in DOMAIN hist : hist[j].res # "ok"}}

\* An `except Exception` clause (the outermost handler of a script) ran.
CaughtAtTop ==
    \E i \in DOMAIN hist : StepOf(i).op = "except" /\ StepOf(i).arg = "Exception"

\* This run wrote its screenshot.
ShotThisRun ==
    \E i \in DOMAIN hist : StepOf(i).op = "screenshot" /\ hist[i].res = "ok"

ShotPath(s) ==
    Prog(s)[CHOOSE p \in DOMAIN Prog(s) : Prog(s)[p].op = "screenshot"].arg

\* Every file name the script s can write.
Artifacts(s) ==
    {Prog(s)[p].arg : p \in {q \in DOMAIN Prog(s) : Prog(s)[q].op \in {"screenshot", "open"}}}

Files == DOMAIN shots \cup (IF image.exists THEN {"test_image.png"} ELSE {})

TryScripts == {"verify", "verify_load", "verify_styles", "verify_redesign",
               "reproduce_delay"}

PngSignature == <<137, 80, 78, 71, 13, 10, 26, 10>>

-----------------------------------------------------------------------------
(* C1: in every script, on every exit path on which navigation, a wait or  *)
(* an action failed (or nothing failed), browser.close() has been executed *)
(* once the script has ended.                                              *)
C1_BrowserClosedOnEveryExit ==
    (Ended /\ browser # "none"
           /\ FailedOps \subseteq ({"goto"} \cup WaitOps \cup ActionOps))
        => browser = "closed"

(* C2: in every script, an error raised by navigation, a wait or an action *)
(* is caught, printed and swallowed: when the script has ended no exception*)
(* has left its entry point, and the error line was printed.               *)
C2_NoExceptionEscapes ==
    (Ended /\ FailedOps # {}
           /\ FailedOps \subseteq ({"goto"} \cup WaitOps \cup ActionOps))
        => (exc = "none" /\ (CaughtAtTop => Printed("Error")))

(* C3: in reproduce_delay, when the 500 ms expectation of "Analyzing       *)
(* Image..." timed out (the text stayed invisible through the window) the  *)
(* script prints the SUCCESS line and never the PASS line; when the        *)
(* expectation returned (the text was seen within the window) it prints    *)
(* the PASS line and never the SUCCESS line.                               *)
C3_NegativeWait ==
    script = "reproduce_delay" =>
        \A i \in DOMAIN hist :
            (StepOf(i).op = "expect" /\ StepOf(i).line = 38) =>
                /\ hist[i].res = "timeout" =>
                      /\ ~Printed("PASS")
                      /\ Len(hist) >= i + 2 => Printed("SUCCESS")
                /\ hist[i].res = "ok" =>
                      /\ ~Printed("SUCCESS")
                      /\ Len(hist) >= i + 1 => Printed("PASS")

C3_Witness ==
    /\ script = "reproduce_delay"
    /\ Ended
    /\ IdxOp("expect") > 0
    /\ hist[IdxOp("expect")].res = "timeout"
    /\ StepOf(IdxOp("expect")).t = 500
    /\ Printed("SUCCESS")

(* C4: the waits of a script are evaluated in their written order after    *)
(* navigation: a wait is evaluated only after navigation and every wait    *)
(* written before it succeeded, and after a wait failed no wait is         *)
(* evaluated any more.                                                     *)
C4_WaitsInOrder ==
    \A i \in DOMAIN hist :
        StepOf(i).op \in WaitOps =>
            /\ \A p \in DOMAIN Prog(script) :
                  (Prog(script)[p].op \in WaitOps \cup {"goto"}
                     /\ Prog(script)[p].line < StepOf(i).line)
                  => \E j \in 1..(i - 1) : hist[j].pc = p /\ hist[j].res = "ok"
            /\ hist[i].res # "ok" =>
                  \A j \in DOMAIN hist : j > i => StepOf(j).op \notin WaitOps
            /\ \A j \in DOMAIN hist : hist[j].pc = hist[i].pc => j = i

C4_Witness ==
    /\ script = "verify_load"
    /\ Ended
    /\ Idx(10) > 0
    /\ hist[Idx(10)].res = "timeout"
    /\ Idx(19) = 0

(* C6 (as stated): in verify, verify_load, verify_styles, verify_redesign  *)
(* and reproduce_delay, a run whose error was caught at the top level has  *)
(* captured a screenshot by the time it closes the browser.                *)
C6_ScreenshotOnFailure ==
    (script \in TryScripts /\ CaughtAtTop /\ browser = "closed") => ShotThisRun

(* C6 (amended): in those five scripts, a run whose error was caught at    *)
(* the top level has captured no screenshot: the handler only prints the   *)
(* error, and the screenshot step is reached only when nothing before it   *)
(* was caught at the top level.                                            *)
C6_NoScreenshotOnFailure ==
    (script \in TryScripts /\ CaughtAtTop) => ~ShotThisRun

C6_Witness ==
    /\ script = "verify_styles"
    /\ CaughtAtTop
    /\ browser = "closed"
    /\ "wait_for_selector" \in FailedOps
    /\ Printed("Error")

(* C7: in verify_maximize the steps run in the order click Maximize,       *)
(* expect Minimize visible, screenshot, click Minimize, expect Minimize    *)
(* not visible; a run that ends without error has seen Minimize visible    *)
(* after the Maximize click and not visible after the Minimize click; and  *)
(* the screenshot holds a page on which Minimize was seen visible, with no *)
(* gesture in between.                                                     *)
C7_MaximizeScenario ==
    script = "verify_maximize" =>
        /\ \A k \in 1..4 :
              LET order == <<24, 31, 38, 41, 44>>
              IN  Idx(order[k + 1]) > 0 =>
                     /\ 0 < Idx(order[k])
                     /\ Idx(order[k]) < Idx(order[k + 1])
                     /\ hist[Idx(order[k])].res = "ok"
        /\ (Ended /\ exc = "none") =>
              /\ Idx(31) > 0 /\ hist[Idx(31)].res = "ok" /\ ~StepOf(Idx(31)).neg
              /\ Idx(44) > 0 /\ hist[Idx(44)].res = "ok" /\ StepOf(Idx(44)).neg
              /\ StepOf(Idx(31)).arg = "label=Minimize"
              /\ StepOf(Idx(44)).arg = "label=Minimize"
              /\ "label=Minimize" \notin shown
        /\ \A p \in DOMAIN shots : "label=Minimize" \in shots[p].shown

C7_Witness ==
    /\ script = "verify_maximize"
    /\ Ended
    /\ exc = "none"
    /\ browser = "closed"
    /\ DOMAIN shots = {"/home/jules/verification/zen_mode.png"}

(* C8: once a script has captured its screenshot, the files on disk are    *)
(* exactly the fixed file names of that script however many runs captured  *)
(* one, and the screenshot file holds the latest capture.                  *)
C8_ScreenshotIdempotent ==
    captures # <<>> =>
        /\ DOMAIN shots = {ShotPath(script)}
        /\ Files = Artifacts(script)
        /\ shots[ShotPath(script)].run = captures[Len(captures)]

C8_Witness ==
    /\ Len(captures) = 2
    /\ captures[1] # captures[2]
    /\ Cardinality(Files) = Cardinality(Artifacts(script))

(* C9: in reproduce_delay every file handed to the file chooser starts     *)
(* with the PNG signature 89 50 4E 47 0D 0A 1A 0A, is the complete byte    *)
(* sequence of the script, was closed before it was handed over, and the   *)
(* order is: file chooser obtained, file opened, written, closed, then     *)
(* set_files.                                                              *)
C9_PngUpload ==
    script = "reproduce_delay" =>
        /\ \A i \in DOMAIN uploaded :
              /\ Len(uploaded[i].bytes) >= 8
              /\ SubSeq(uploaded[i].bytes, 1, 8) = PngSignature
              /\ uploaded[i].bytes = test_image
              /\ uploaded[i].closed
              /\ uploaded[i].chosen
        /\ IdxOp("set_files") > 0 =>
              /\ 0 < IdxOp("file_chooser")
              /\ IdxOp("file_chooser") < IdxOp("open")
              /\ IdxOp("open") < IdxOp("write")
              /\ IdxOp("write") < IdxOp("fclose")
              /\ IdxOp("fclose") < IdxOp("set_files")

C9_Witness ==
    /\ script = "reproduce_delay"
    /\ Len(uploaded) = 1
    /\ Len(uploaded[1].bytes) = 67
    /\ ~image.open

(* C10: in reproduce_delay the success outcome (SUCCESS printed and        *)
(* verification/bug_reproduced.png written) is produced only when the      *)
(* 500 ms expectation ended by timeout.                                    *)
C10_SuccessOnlyOnTimeout ==
    (script = "reproduce_delay" /\ Printed("SUCCESS") /\ ShotThisRun)
        => hist[IdxOp("expect")].res = "timeout"

====
